---- MODULE Spec2Model ----
(***************************************************************************)
(* State-machine model of the update-check coordinator of alfred-workflow  *)
(* (src/updater/mod.rs, src/updater/imp.rs, src/updater/releaser.rs) and   *)
(* of its key/value store (src/data/mod.rs).                               *)
(*                                                                         *)
(* One host process runs at a time.  It builds an Updater (load_or_new),   *)
(* calls init / update_ready / try_update_ready / set_version /            *)
(* set_interval in any order and exits.  init may spawn worker threads     *)
(* that talk to the release source, write the async status cache file and  *)
(* send one message through an mpsc channel.                               *)
(*                                                                         *)
(* Conventions                                                             *)
(*  - Option<T> is a sequence of length 0 (None) or 1 (Some(x)).           *)
(*  - A file is an Option of its content: None is a missing file.          *)
(*  - Time is discrete; one unit stands for UPDATE_INTERVAL seconds (24h). *)
(*  - Semantic versions are the totally ordered set 0..MaxVer.             *)
(*  - In Spec, reading and writing the state and cache files and creating  *)
(*    a thread do not fail; writing the downloaded file can fail.          *)
(*    ReplaceSpec shows a file between File::create and the write,         *)
(*    WorkerSpec a failing write of the async status cache file, DataSpec  *)
(*    and CacheSpec failing writes of the files of module data.            *)
(*  - Garbage is the content of a file that serde_json cannot read.        *)
(*  - A string is a sequence of characters; a literal of the code is one   *)
(*    element of the sequence.                                             *)
(*  - Variables fresh, queried, ret, net_calls, last_good, path, observed, *)
(*    got, was_set and was_saved, and the field fetched_at of a worker,    *)
(*    are history variables: no code reads them.                           *)
(*                                                                         *)
(* Specifications                                                          *)
(*  - Spec, FairSpec, PollSpec: the Updater and its worker threads.        *)
(*  - DownloadSpec: the same with download_latest.                         *)
(*  - NameSpec: build_data_fn over the workflow environments.              *)
(*  - DueSpec: due_to_check over times, last checks and intervals.         *)
(*  - ConstructSpec: load_or_new over the state files it can find.         *)
(*  - ReplaceSpec: a second process reading the files while they are       *)
(*    written.                                                             *)
(*  - DataSpec: Data::load, set and get.                                   *)
(*  - CacheSpec: Data::save_to_file and load_from_file.                    *)
(*  - ReleaserSpec: GithubReleaser::downloadable_url over asset lists.     *)
(*  - BranchSpec: init over the states of an Updater and cache files.      *)
(*  - WorkerSpec: Spec with repeated init and a failing cache write.       *)
(*  - CycleSpec: init and the queries over the times up to MaxDueTime.     *)
(*  - PersistSpec: Spec with a failing save of the state file.             *)
(*  - GithubSpec: the calls of one GithubReleaser and its held release.    *)
(*  - TagSpec: Spec with a release whose tag is not a version.             *)
(***************************************************************************)
EXTENDS Integers, Sequences, FiniteSets, TLC

MaxTime == 1
MaxVer == 1
MaxInits == 1
MaxReinits == 2
MaxNameLen == 2
MaxDueTime == 3

\* pub const UPDATE_INTERVAL: i64 = 24 * 60 * 60, in units of 24 hours
UPDATE_INTERVAL == 1

VARIABLES
    now,              \* wall clock, Utc::now()
    env_version,      \* environment variable alfred_workflow_version of the
                      \* running host process
    state_file,       \* <uid>-<name>-updater.json
    cache_async,      \* last_check_status_async.json
    cache_sync,       \* last_check_status.json
    alive,            \* an Updater exists in the running host process
    current_version,  \* UpdaterState.current_version
    avail_release,    \* UpdaterState.avail_release
    last_check,       \* UpdaterState.last_check
    update_interval,  \* UpdaterState.update_interval
    worker_state,     \* UpdaterState.worker_state : Option<MPSCState>
    nchan,            \* number of channels created by this process
    chan,             \* the mpsc channels: queued messages and sender alive
    worker,           \* the worker threads, one per channel at most;
                      \* fetched_at is history: the time at which the thread
                      \* got the answer of the release source
    pc,               \* caller thread: "idle" or "blocked" in rx.recv()
    ret,              \* history: the last call made on the Updater when it is
                      \* load_or_new or a readiness query, and its result
    net_calls,        \* history: calls of Releaser::latest_release by this
                      \* process, modulo 2
    fresh,            \* history: the Updater was built with last_check = None
    queried,          \* history: a readiness query returned on this Updater
    last_good,        \* history: release of the last successful check
    wf_env,           \* environment variables alfred_workflow_uid and
                      \* alfred_workflow_name
    path,             \* file name of the last path built by build_data_fn or
                      \* returned by download_latest
    artifact,         \* the downloaded workflow file in the cache directory
    observed,         \* what another host process running at the same time
                      \* last got when it opened and read the state file and
                      \* the async status cache file
    data,             \* Data.inner of the Data the host process holds
    data_file,        \* <uid>-persistent-data.json in the data directory
    cache_files,      \* the files of save_to_file in the cache directory
    got,              \* what the last Data::get or load_from_file returned
    was_set,          \* history: per key, the value of the last Data::set
                      \* that returned Ok
    was_saved,        \* history: per file name, the value of the last
                      \* save_to_file that returned Ok
    latest_release    \* GithubReleaser.latest_release :
                      \* RefCell<Option<ReleaseItem>>

\* The variables of the update check
updater == <<now, env_version, state_file, cache_async, cache_sync, alive,
             current_version, avail_release, last_check, update_interval,
             worker_state, nchan, chan, worker, pc, ret, net_calls, fresh,
             queried, last_good>>

\* A second host process reading the files
peer == <<observed>>

\* The variables of module data
store == <<data, data_file, cache_files, got, was_set, was_saved>>

\* The variables of file naming and download, and of what lies outside the
\* update check
\* The release source GithubReleaser
github == <<latest_release>>

workflow == <<wf_env, path, artifact, peer, store, github>>

vars == <<now, env_version, state_file, cache_async, cache_sync, alive,
          current_version, avail_release, last_check, update_interval,
          worker_state, nchan, chan, worker, pc, ret, net_calls, fresh,
          queried, last_good, wf_env, path, artifact, observed, data,
          data_file, cache_files, got, was_set, was_saved, latest_release>>

disk == <<state_file, cache_async, cache_sync>>
state == <<current_version, avail_release, last_check, update_interval,
           worker_state>>
threads == <<nchan, chan, worker>>

-----------------------------------------------------------------------------
\* Option<T>
None == <<>>
Some(x) == <<x>>
IsSome(o) == o /= <<>>
Unwrap(o) == o[1]

Versions == 0..MaxVer
Times == 0..MaxTime
Intervals == {0, UPDATE_INTERVAL}
Channels == 1..(IF MaxReinits > MaxInits THEN MaxReinits ELSE MaxInits)

\* A string that the semantic-version grammar rejects
Unparseable == MaxVer + 1
VersionStrings == Versions \cup {Unparseable}

\* (mutant) a rejected string falls back to version 0
VersionParse_lenient(s) == Some(IF s \in Versions THEN s ELSE 0)

\* semver::Version::parse(s).ok()
VersionParse(s) == IF s \in Versions THEN Some(s) ELSE None

\* struct UpdateInfo { version, downloadable_url }: the url comes with the
\* version from the release source and is not modelled separately
UpdateInfo(v) == [version |-> v]

\* type ReleasePayloadResult = Result<Option<UpdateInfo>, Error>
OkMsg(payload) == [ok |-> TRUE, payload |-> payload]

\* (mutant) the worker reports a failed check as 'no release'
ErrMsg_as_none == OkMsg(None)

\* Err(error)
ErrMsg == [ok |-> FALSE, payload |-> None]

\* What Releaser::latest_release can answer: an error or a version
ReleaserAnswers == {[ok |-> FALSE, version |-> 0]}
                     \cup {[ok |-> TRUE, version |-> v] : v \in Versions}

Failure == [ok |-> FALSE, version |-> 0]
Release(v) == [ok |-> TRUE, version |-> v]

\* The answer of the release source that a worker's message carries
answer_of(msg) == IF msg.ok /\ IsSome(msg.payload)
                  THEN Release(Unwrap(msg.payload).version) ELSE Failure

\* MPSCState::new(rx)
MPSCState(rx) == [recvd_payload |-> None, rx |-> rx]

\* serde_json::to_writer(&self.state): the serialized UpdaterState
\* (update_interval and worker_state are #[serde(skip)])
UpdaterState(cv, ar, lc) ==
    [current_version |-> cv, avail_release |-> ar, last_check |-> lc]

\* (mutant) the serialized state lacks last_check
save_without_last_check(cv, ar, lc) == Some(UpdaterState(cv, ar, None))

\* Updater::save: the content of the state file afterwards
save(cv, ar, lc) == Some(UpdaterState(cv, ar, lc))

\* Content of a state file that serde_json cannot deserialize as UpdaterState
Garbage == [garbage |-> TRUE]

\* (mutant) only a missing file counts as 'no saved state'
load_if_exists(file) ==
    IF IsSome(file)
    THEN IF "current_version" \in DOMAIN Unwrap(file) THEN file
         ELSE Some(UpdaterState(0, None, Some(0)))
    ELSE None

\* Updater::load().ok(): the saved state, None for a missing file and for
\* one that does not deserialize
load(file) ==
    IF IsSome(file)
         /\ DOMAIN Unwrap(file)
              = {"current_version", "avail_release", "last_check"}
    THEN file ELSE None

\* Updater::write_last_check_status: the content of the cache file afterwards
write_last_check_status(payload) == Some(payload)

\* Updater::read_last_check_status(p).or(Ok(None)) keeps None for a missing
\* or unreadable file; here: Result<Option<UpdateInfo>> as an Option, None
\* standing for Err
read_last_check_status(file) ==
    IF file = Some(Some(Garbage)) THEN None ELSE file

\* (mutant) the operands of the comparison are swapped
version_less_swapped(cv, v) == v < cv

\* self.current_version() < &release.version
version_less(cv, v) == cv < v

\* the final comparison of update_ready_async (imp.rs 399-410)
is_newer(cv, ar) == IF IsSome(ar) THEN version_less(cv, Unwrap(ar).version)
                    ELSE FALSE

\* (mutant) a check is due as soon as the interval has passed
due_to_check_inclusive(lc, interval, t) ==
    IF IsSome(lc) THEN t - Unwrap(lc) >= interval ELSE TRUE

\* Updater::due_to_check
due_to_check(lc, interval, t) ==
    IF IsSome(lc) THEN t - Unwrap(lc) > interval ELSE TRUE

\* (mutant) the first-run rule is missing
first_run_never(lc) == FALSE

\* self.last_check().is_none(): the workflow runs for the first time
first_run(lc) == lc = None

\* (mutant) the cached payload is ignored and the channel read again
has_payload_never(mpsc) == FALSE

\* mpsc.recvd_payload.borrow().is_none(), negated
has_payload(mpsc) == IsSome(mpsc.recvd_payload)

\* (mutant) the received payload is not cached
cache_nothing(mpsc, msg) == mpsc

\* *mpsc.recvd_payload.borrow_mut() = Some(Ok(update_info.clone()))
cache_payload(mpsc, msg) == [mpsc EXCEPT !.recvd_payload = Some(msg)]

\* (mutant) a payload of None keeps the release stored before
merge_keep(ar, msg) ==
    IF msg.ok /\ IsSome(msg.payload) THEN msg.payload ELSE ar

\* msg.map(|update_info| *self.state.avail_release.borrow_mut() =
\* update_info.clone()): the release after a message was received
merge(ar, msg) == IF msg.ok THEN msg.payload ELSE ar

\* (mutant) an error is cached like a payload
received_any(mpsc, msg) == cache_payload(mpsc, msg)

\* msg.map(..): only Ok(update_info) is cached in recvd_payload
received(mpsc, msg) == IF msg.ok THEN cache_payload(mpsc, msg) ELSE mpsc

\* (mutant) the queries never take the synchronous path
use_sync_never(ws) == FALSE

\* self.state.borrow_worker().is_none(): no init was called, the query takes
\* the synchronous path
use_sync(ws) == ws = None

\* (mutant) try_flag is ignored: the receive always blocks
recv_fails_blocking(try_flag, tx) == ~tx

\* With nothing queued, rx.try_recv() fails at once and rx.recv() fails once
\* the sender is dropped (and blocks until then)
recv_fails(try_flag, tx) == try_flag \/ ~tx

\* (mutant) the environment version always wins
env_always_wins(saved_version, env) ==
    LET env_ver == IF IsSome(env) THEN VersionParse(Unwrap(env)) ELSE None
    IN  IF IsSome(env_ver) THEN Unwrap(env_ver) ELSE saved_version

\* The version load_or_new gives an Updater loaded from a saved state
env_override(saved_version, env) ==
    LET env_ver == IF IsSome(env) THEN VersionParse(Unwrap(env)) ELSE None
    IN  IF IsSome(env_ver) /\ Unwrap(env_ver) > saved_version
        THEN Unwrap(env_ver) ELSE saved_version

\* history record of a readiness query
Ret(op, ok, val, branch, fetched) ==
    [op |-> op, ok |-> ok, val |-> val, branch |-> branch,
     fetched |-> fetched]
NoRet == Ret("none", FALSE, FALSE, "none", None)

\* Module data: keys of Data, paths and file names of save_to_file
Keys == {"key1", "key2"}
Paths == {"x", "dir/x", "y", ".."}
FileNames == {"x", "y"}

\* No Data is loaded and the data and cache directories are empty
NoData ==
    /\ data = None
    /\ data_file = None
    /\ cache_files = [n \in FileNames |-> None]
    /\ got = None
    /\ was_set = [k \in Keys |-> None]
    /\ was_saved = [n \in FileNames |-> None]

\* The other process has read neither file
NotRead == [state |-> None, status |-> None]

NoWorker == [pc |-> "none", payload |-> None, fetched_at |-> None]
NoChan == [msgs |-> <<>>, tx |-> FALSE]

-----------------------------------------------------------------------------
\* File names.  A string is a sequence of characters; a fixed part of a file
\* name ("-updater.json") is one element.

\* One character of each class that char::is_ascii_alphanumeric tells apart:
\* an ASCII letter, an ASCII digit, an ASCII punctuation character and a
\* letter outside ASCII
AsciiAlphanumeric == {"a", "7"}
Chars == AsciiAlphanumeric \cup {"/", "U+30D5"}

\* The strings of at most n characters
Strings(n) == UNION {[1..k -> Chars] : k \in 0..n}

\* (mutant) every letter is kept, ASCII or not
is_alphanumeric(c) == c \in AsciiAlphanumeric \cup {"U+30D5"}

\* c.is_ascii_alphanumeric()
is_ascii_alphanumeric(c) == c \in AsciiAlphanumeric

\* .chars().map(|c| if c.is_ascii_alphanumeric() { c } else { '_' })
\* .collect::<String>()
sanitize(s) ==
    [i \in 1..Len(s) |-> IF is_ascii_alphanumeric(s[i]) THEN s[i] ELSE "_"]

\* The name build_data_fn uses when alfred_workflow_name is not set
\* ("YouForgotTo/.:NameYourOwnWork}flow.")
DefaultName == <<"a", "/", "U+30D5", "a">>

\* env::workflow_name().unwrap_or_else(..), sanitized
workflow_name(env) ==
    sanitize(IF IsSome(env.name) THEN Unwrap(env.name) ELSE DefaultName)

\* The file name Updater::build_data_fn builds: Some(name), or None for the
\* error of a missing alfred_workflow_uid (alfred_workflow_data is set)
data_fn(env) ==
    IF IsSome(env.uid)
    THEN Some(Unwrap(env.uid) \o <<"-">> \o workflow_name(env)
                \o <<"-updater.json">>)
    ELSE None

\* The file name Updater::download_latest builds in the cache directory
\* (alfred_workflow_cache is set)
latest_release_downloaded_fn(env) ==
    IF IsSome(env.uid)
    THEN Some(<<"latest_release_">> \o Unwrap(env.uid)
                \o <<".alfredworkflow">>)
    ELSE None

\* The workflow of the crate's tests: a uid and a display name with
\* characters that are not ASCII letters or digits
TestEnv == [uid |-> Some(<<"a", "/", "7">>), name |-> Some(<<"a", "U+30D5">>)]

-----------------------------------------------------------------------------
\* No host process has run yet: nothing on disk, no Updater
NoUpdater ==
    /\ now = 0
    /\ env_version = None
    /\ state_file = None
    /\ cache_async = None
    /\ cache_sync = None
    /\ alive = FALSE
    /\ current_version = 0
    /\ avail_release = None
    /\ last_check = None
    /\ update_interval = UPDATE_INTERVAL
    /\ worker_state = None
    /\ nchan = 0
    /\ chan = [i \in Channels |-> NoChan]
    /\ worker = [i \in Channels |-> NoWorker]
    /\ pc = "idle"
    /\ ret = NoRet
    /\ net_calls = 0
    /\ fresh = FALSE
    /\ queried = FALSE
    /\ last_good = None

Init ==
    /\ NoUpdater
    /\ wf_env = TestEnv
    /\ path = None
    /\ artifact = None
    /\ observed = NotRead
    /\ NoData
    /\ latest_release = None

\* (mutant) a loaded state starts with a shorter interval than the default
shorter_interval == UPDATE_INTERVAL - 1

\* default_interval, the serde default of the skipped field update_interval
default_interval == UPDATE_INTERVAL

-----------------------------------------------------------------------------
\* What Alfred can put in alfred_workflow_version when it starts the process
EnvVersions == {None} \cup {Some(s) : s \in VersionStrings}

\* The host process starts with env in alfred_workflow_version and calls
\* Updater::load_or_new (through Updater::gh / Updater::new)
load_or_new(env) ==
    /\ ~alive
    /\ LET loaded == load(state_file)
           parsed == IF IsSome(env) THEN VersionParse(Unwrap(env))
                     ELSE Some(0)
       IN
       IF IsSome(loaded)
       THEN LET saved == Unwrap(loaded) IN
            /\ alive' = TRUE
            /\ env_version' = env
            /\ current_version' = env_override(saved.current_version, env)
            /\ avail_release' = saved.avail_release
            /\ last_check' = saved.last_check
            /\ fresh' = (saved.last_check = None)
            /\ ret' = Ret("load_or_new", TRUE, FALSE, "load", None)
            /\ UNCHANGED state_file
       ELSE IF IsSome(parsed)
       THEN /\ alive' = TRUE
            /\ env_version' = env
            /\ current_version' = Unwrap(parsed)
            /\ avail_release' = None
            /\ last_check' = None
            /\ fresh' = TRUE
            /\ state_file' = save(Unwrap(parsed), None, None)
            /\ ret' = Ret("load_or_new", TRUE, FALSE,
                          IF IsSome(state_file) THEN "unreadable" ELSE "new",
                          None)
       ELSE \* Version::parse(&v)? fails: an error and no Updater
            /\ ret' = Ret("load_or_new", FALSE, FALSE, "bad_version", None)
            /\ UNCHANGED <<alive, env_version, current_version,
                           avail_release, last_check, fresh, state_file>>
    /\ update_interval' = IF IsSome(load(state_file)) THEN default_interval
                          ELSE UPDATE_INTERVAL
    /\ worker_state' = None
    /\ queried' = FALSE
    /\ UNCHANGED workflow
    /\ UNCHANGED <<now, cache_async, cache_sync, threads, pc, net_calls,
                   last_good>>

\* Updater::set_version
set_version(v) ==
    /\ alive /\ pc = "idle"
    /\ current_version' = v
    /\ env_version' = Some(v)
    /\ ret' = NoRet
    /\ UNCHANGED workflow
    /\ UNCHANGED <<now, disk, alive, avail_release, last_check,
                   update_interval, worker_state, threads, pc,
                   net_calls, fresh, queried, last_good>>

\* Updater::set_interval
set_interval(tick) ==
    /\ alive /\ pc = "idle"
    /\ update_interval' = tick
    /\ ret' = NoRet
    /\ UNCHANGED workflow
    /\ UNCHANGED <<now, env_version, disk, alive, current_version,
                   avail_release, last_check, worker_state, threads, pc,
                   net_calls, fresh, queried, last_good>>

\* The status init sends when the check is not due (mod.rs 373-383)
\* (mutant) the cached release is forwarded without comparing versions
cached_status_any(file, cv) ==
    LET status == read_last_check_status(file) IN
    IF IsSome(status) THEN OkMsg(Unwrap(status)) ELSE OkMsg(None)

\* The status init sends when no check is due (mod.rs 372-385)
cached_status(file, cv) ==
    LET status == read_last_check_status(file) IN
    IF IsSome(status) /\ is_newer(cv, Unwrap(status))
    THEN OkMsg(Unwrap(status)) ELSE OkMsg(None)

\* (mutant) init stamps last_check in every branch
init_last_check_always(lc, t) == Some(t)

\* last_check after init: set_last_check(Utc::now()) in the first-run branch
\* only
init_last_check(lc, t) == IF first_run(lc) THEN Some(t) ELSE lc

\* Updater::init, called at most n times on one Updater
init_within(n) ==
    /\ alive /\ pc = "idle"
    /\ nchan < n
    /\ LET c == nchan + 1
           \* the previous receiver is dropped with what is still queued
           old == IF IsSome(worker_state)
                  THEN [chan EXCEPT ![Unwrap(worker_state).rx].msgs = <<>>]
                  ELSE chan
       IN
       /\ nchan' = c
       /\ IF first_run(last_check)
          THEN /\ state_file' = save(current_version, avail_release, Some(now))
               /\ chan' = [old EXCEPT ![c] = [msgs |-> <<OkMsg(None)>>,
                                               tx |-> FALSE]]
               /\ UNCHANGED worker
          ELSE IF due_to_check(last_check, update_interval, now)
          THEN /\ chan' = [old EXCEPT ![c] = [msgs |-> <<>>, tx |-> TRUE]]
               /\ worker' = [worker EXCEPT ![c] = [pc |-> "fetch",
                                                   payload |-> None,
                                                   fetched_at |-> None]]
               /\ UNCHANGED state_file
          ELSE /\ chan' = [old EXCEPT ![c] =
                             [msgs |-> <<cached_status(cache_async,
                                                       current_version)>>,
                              tx |-> FALSE]]
               /\ UNCHANGED <<state_file, worker>>
       /\ last_check' = init_last_check(last_check, now)
       /\ worker_state' = Some(MPSCState(c))
    /\ ret' = NoRet
    /\ UNCHANGED workflow
    /\ UNCHANGED <<now, env_version, cache_async, cache_sync, alive,
                   current_version, avail_release, update_interval, pc,
                   net_calls, fresh, queried, last_good>>

init == init_within(MaxInits)

-----------------------------------------------------------------------------
\* The worker thread of start_releaser_worker (imp.rs 176-198), in two steps:
\* the call of the release source, which takes time, and what follows it.

\* The receiver of channel i is the one stored in the worker slot
RxAlive(i) == IsSome(worker_state) /\ Unwrap(worker_state).rx = i

\* (mutant) an error is only logged: nothing is sent and the sender stays
send_unless_err(ch, i, msg) ==
    IF msg.ok
    THEN [ch EXCEPT ![i] = [msgs |-> IF RxAlive(i)
                                     THEN Append(ch[i].msgs, msg)
                                     ELSE ch[i].msgs,
                            tx |-> FALSE]]
    ELSE ch

\* tx.send(msg), after which the thread ends and drops tx.  A send to a
\* dropped receiver fails and delivers nothing.
send(ch, i, msg) ==
    [ch EXCEPT ![i] = [msgs |-> IF RxAlive(i) THEN Append(ch[i].msgs, msg)
                                ELSE ch[i].msgs,
                       tx |-> FALSE]]

\* let (v, url) = releaser.latest_release()?  and, when that fails,
\* tx.send(Err(error))
WorkerFetch(i) ==
    /\ worker[i].pc = "fetch"
    /\ net_calls' = (net_calls + 1) % 2
    /\ \E r \in ReleaserAnswers :
         IF r.ok
         THEN /\ worker' = [worker EXCEPT ![i] =
                              [pc |-> "write",
                               payload |-> Some(UpdateInfo(r.version)),
                               fetched_at |-> Some(now)]]
              /\ UNCHANGED chan
         ELSE /\ worker' = [worker EXCEPT ![i] = [pc |-> "done",
                                                  payload |-> None,
                                                  fetched_at |-> None]]
              /\ chan' = send(chan, i, ErrMsg)
    /\ UNCHANGED workflow
    /\ UNCHANGED <<now, env_version, disk, alive, state, nchan, pc, ret,
                   fresh, queried, last_good>>

\* (mutant) the worker records the time of its check and saves the state
WorkerWrite_saves(i) ==
    /\ worker[i].pc = "write"
    /\ cache_async' = write_last_check_status(worker[i].payload)
    /\ last_good' = worker[i].payload
    /\ chan' = send(chan, i, OkMsg(worker[i].payload))
    /\ worker' = [worker EXCEPT ![i] = [pc |-> "done", payload |-> None,
                                        fetched_at |-> worker[i].fetched_at]]
    /\ last_check' = Some(now)
    /\ state_file' = save(current_version, avail_release, Some(now))
    /\ UNCHANGED workflow
    /\ UNCHANGED <<now, env_version, cache_sync, alive, current_version,
                   avail_release, update_interval, worker_state,
                   nchan, pc, ret, net_calls, fresh, queried>>

\* Self::write_last_check_status(&p, &payload)?; tx.send(Ok(payload))?
WorkerWrite(i) ==
    /\ worker[i].pc = "write"
    /\ cache_async' = write_last_check_status(worker[i].payload)
    /\ last_good' = worker[i].payload
    /\ chan' = send(chan, i, OkMsg(worker[i].payload))
    /\ worker' = [worker EXCEPT ![i] = [pc |-> "done", payload |-> None,
                                        fetched_at |-> worker[i].fetched_at]]
    /\ UNCHANGED workflow
    /\ UNCHANGED <<now, env_version, state_file, cache_sync, alive, state,
                   nchan, pc, ret, net_calls, fresh, queried>>

-----------------------------------------------------------------------------
\* Updater::update_ready_sync
update_ready_sync(op) ==
    /\ UNCHANGED <<worker_state, threads, pc, cache_async>>
    /\ queried' = TRUE
    /\ IF first_run(last_check)
       THEN /\ last_check' = Some(now)
            /\ state_file' = save(current_version, avail_release, Some(now))
            /\ ret' = Ret(op, TRUE, FALSE, "first_run", None)
            /\ UNCHANGED <<avail_release, cache_sync, net_calls, last_good>>
       ELSE IF due_to_check(last_check, update_interval, now)
       THEN /\ net_calls' = (net_calls + 1) % 2
            /\ \E r \in ReleaserAnswers :
                 IF r.ok
                 THEN LET payload == Some(UpdateInfo(r.version)) IN
                      /\ cache_sync' = write_last_check_status(payload)
                      /\ avail_release' = payload
                      /\ last_check' = Some(now)
                      /\ state_file' = save(current_version, payload, Some(now))
                      /\ last_good' = payload
                      /\ ret' = Ret(op, TRUE,
                                    version_less(current_version, r.version),
                                    "fetch", Some(r))
                 ELSE /\ ret' = Ret(op, FALSE, FALSE, "fetch", Some(r))
                      /\ UNCHANGED <<cache_sync, avail_release, last_check,
                                     state_file, last_good>>
       ELSE LET status == read_last_check_status(cache_sync) IN
            /\ ret' = Ret(op, TRUE,
                          IF IsSome(status)
                          THEN is_newer(current_version, Unwrap(status))
                          ELSE FALSE,
                          "cache", None)
            /\ UNCHANGED <<avail_release, last_check, state_file, cache_sync,
                           net_calls, last_good>>

\* Updater::update_ready_async
update_ready_async(op, try_flag) ==
    LET mpsc == Unwrap(worker_state)
        c == chan[mpsc.rx]
    IN
    /\ UNCHANGED <<nchan, worker, cache_async, cache_sync, net_calls,
                   last_good>>
    /\ IF worker_state = None
       THEN \* err_msg("you need to use init() metheod first.")
            /\ ret' = Ret(op, FALSE, FALSE, "usage", None)
            /\ queried' = TRUE
            /\ pc' = "idle"
            /\ UNCHANGED <<avail_release, last_check, state_file,
                           worker_state, chan>>
       ELSE IF has_payload(mpsc)
       THEN \* payload cached: skip the channel, compare
            /\ ret' = Ret(op, TRUE, is_newer(current_version, avail_release),
                          "recvd", None)
            /\ queried' = TRUE
            /\ pc' = "idle"
            /\ UNCHANGED <<avail_release, last_check, state_file,
                           worker_state, chan>>
       ELSE IF c.msgs /= <<>>
       THEN \* rx.recv() / rx.try_recv() yields a message
            LET msg == Head(c.msgs)
                ar == merge(avail_release, msg)
            IN
            /\ chan' = [chan EXCEPT ![mpsc.rx].msgs = Tail(c.msgs)]
            /\ avail_release' = ar
            /\ worker_state' = Some(received(mpsc, msg))
            /\ last_check' = Some(now)
            /\ state_file' = save(current_version, ar, Some(now))
            /\ ret' = Ret(op, msg.ok,
                          msg.ok /\ is_newer(current_version, ar),
                          "recv",
                          IF worker[mpsc.rx].pc = "none" THEN None
                          ELSE Some(answer_of(msg)))
            /\ queried' = TRUE
            /\ pc' = "idle"
       ELSE IF recv_fails(try_flag, c.tx)
       THEN \* nothing queued: try_recv fails; recv fails once tx is dropped
            /\ ret' = Ret(op, FALSE, FALSE,
                          IF c.tx THEN "empty" ELSE "disconnected",
                          None)
            /\ queried' = TRUE
            /\ pc' = "idle"
            /\ UNCHANGED <<avail_release, last_check, state_file,
                           worker_state, chan>>
       ELSE \* rx.recv() blocks until a message arrives or tx is dropped
            /\ pc' = "blocked"
            /\ ret' = Ret(op, FALSE, FALSE, "blocked", None)
            /\ UNCHANGED <<avail_release, last_check, state_file,
                           worker_state, chan, queried>>

\* Updater::update_ready
update_ready ==
    /\ alive /\ pc = "idle"
    /\ IF use_sync(worker_state)
       THEN update_ready_sync("update_ready")
       ELSE update_ready_async("update_ready", FALSE)
    /\ UNCHANGED workflow
    /\ UNCHANGED <<now, env_version, alive, current_version, update_interval,
                   fresh>>

\* rx.recv() of a blocked update_ready returns
update_ready_recv ==
    /\ alive /\ pc = "blocked"
    /\ LET c == chan[Unwrap(worker_state).rx] IN c.msgs /= <<>> \/ ~c.tx
    /\ update_ready_async("update_ready", FALSE)
    /\ UNCHANGED workflow
    /\ UNCHANGED <<now, env_version, alive, current_version, update_interval,
                   fresh>>

\* Updater::try_update_ready
try_update_ready ==
    /\ alive /\ pc = "idle"
    /\ IF use_sync(worker_state)
       THEN update_ready_sync("try_update_ready")
       ELSE update_ready_async("try_update_ready", TRUE)
    /\ UNCHANGED workflow
    /\ UNCHANGED <<now, env_version, alive, current_version, update_interval,
                   fresh>>

-----------------------------------------------------------------------------
\* The host process exits: the Updater, its channels, its worker threads and
\* its environment are gone; the files stay
Exit ==
    /\ alive /\ pc = "idle"
    /\ alive' = FALSE
    /\ current_version' = 0
    /\ avail_release' = None
    /\ last_check' = None
    /\ update_interval' = UPDATE_INTERVAL
    /\ worker_state' = None
    /\ nchan' = 0
    /\ chan' = [i \in Channels |-> NoChan]
    /\ worker' = [i \in Channels |-> NoWorker]
    /\ ret' = NoRet
    /\ fresh' = FALSE
    /\ queried' = FALSE
    /\ net_calls' = 0
    /\ env_version' = None
    /\ UNCHANGED workflow
    /\ UNCHANGED <<now, disk, pc, last_good>>

\* Time passes, up to time n
Tick_within(n) ==
    /\ now < n
    /\ now' = now + 1
    /\ UNCHANGED workflow
    /\ UNCHANGED <<env_version, disk, alive, state, threads, pc, ret,
                   net_calls, fresh, queried, last_good>>

Tick == Tick_within(MaxTime)

Next ==
    \/ \E env \in EnvVersions : load_or_new(env)
    \/ \E v \in Versions : set_version(v)
    \/ \E t \in Intervals : set_interval(t)
    \/ init
    \/ update_ready
    \/ update_ready_recv
    \/ try_update_ready
    \/ \E i \in Channels : WorkerFetch(i)
    \/ \E i \in Channels : WorkerWrite(i)
    \/ Exit
    \/ Tick

Spec == Init /\ [][Next]_vars

\* A step of worker thread i
Worker(i) == WorkerFetch(i) \/ WorkerWrite(i)

\* The worker threads run and a blocked receive returns when it can
FairSpec ==
    /\ Spec
    /\ \A i \in Channels : WF_vars(Worker(i))
    /\ WF_vars(update_ready_recv)

\* A readiness query: a call, or the return of a blocked call
Query == update_ready \/ update_ready_recv \/ try_update_ready

\* FairSpec with a caller that keeps asking while an answer would change
\* anything
PollSpec == FairSpec /\ WF_vars(Query)

-----------------------------------------------------------------------------
\* File naming on its own: the workflow's uid and display name range over the
\* strings, and the only step is a call of build_data_fn.

\* What Alfred can put in alfred_workflow_uid and alfred_workflow_name
WorkflowEnvs ==
    [uid : {None} \cup {Some(u) : u \in Strings(1)},
     name : {None} \cup {Some(n) : n \in Strings(MaxNameLen)}]

\* Updater::build_data_fn
build_data_fn ==
    /\ path' = data_fn(wf_env)
    /\ ret' = Ret("build_data_fn", IsSome(data_fn(wf_env)), FALSE, "none",
                  None)
    /\ UNCHANGED <<now, env_version, disk, alive, state, threads, pc,
                   net_calls, fresh, queried, last_good, wf_env, artifact,
                   peer, store, github>>

NameInit ==
    /\ NoUpdater
    /\ wf_env \in WorkflowEnvs
    /\ path = None
    /\ artifact = None
    /\ observed = NotRead
    /\ NoData
    /\ latest_release = None

NameNext == build_data_fn

NameSpec == NameInit /\ [][NameNext]_vars

-----------------------------------------------------------------------------
\* download_latest. A URL is identified with the version of the release it
\* points to; the file with the download name is absent, or holds the asset
\* of a version, completely or in part (artifact).

\* (mutant) a URL is produced even when no release is stored
download_url_any(ar) == Some(IF IsSome(ar) THEN Unwrap(ar).version ELSE 0)

\* UpdaterState::download_url
download_url(ar) == IF IsSome(ar) THEN Some(Unwrap(ar).version) ELSE None

\* What can happen once the URL is known: the request fails or has an error
\* status; the cache directory is not in the environment; File::create
\* fails; copying the body fails; the body fits the buffer of the BufWriter
\* and writing it out when the BufWriter is dropped fails; all goes well
DownloadOutcomes == {"http", "env", "create", "copy", "flush", "ok"}

File(v, complete) == Some([version |-> v, complete |-> complete])

\* Updater::download_latest
download_latest ==
    /\ alive /\ pc = "idle"
    /\ LET url == download_url(avail_release) IN
       IF ~IsSome(url)
       THEN /\ ret' = Ret("download_latest", FALSE, FALSE, "no_release", None)
            /\ UNCHANGED <<path, artifact>>
       ELSE \E outcome \in DownloadOutcomes :
            /\ ret' = Ret("download_latest", outcome \in {"flush", "ok"},
                          FALSE, outcome, None)
            /\ path' = IF outcome \in {"flush", "ok"}
                       THEN latest_release_downloaded_fn(wf_env)
                       ELSE path
            /\ CASE outcome \in {"http", "env"} -> artifact' = artifact
                 \* remove_file is tried on whatever has that name
                 [] outcome = "create" -> artifact' \in {artifact, None}
                 \* the file was truncated and partly written, then removed
                 [] outcome = "copy" -> artifact' = None
                 \* the error of the last write is lost when the BufWriter
                 \* is dropped
                 [] outcome = "flush" -> artifact' = File(Unwrap(url), FALSE)
                 [] outcome = "ok" -> artifact' = File(Unwrap(url), TRUE)
    /\ UNCHANGED <<now, env_version, disk, alive, state, threads, pc,
                   net_calls, fresh, queried, last_good, wf_env, peer, github,
                   store>>

DownloadNext == Next \/ download_latest

DownloadSpec == Init /\ [][DownloadNext]_vars

-----------------------------------------------------------------------------
\* Construction on its own: a host process starts with any state file an
\* earlier run, or anything else, can have left: none, one that does not
\* deserialize, or a saved state.

SavedFiles ==
    {None, Some(Garbage)}
      \cup {save(cv, ar, lc) :
               cv \in Versions,
               ar \in {None} \cup {Some(UpdateInfo(v)) : v \in Versions},
               lc \in {None} \cup {Some(t) : t \in Times}}

\* a stored release comes with the time of its check, which is not later
\* than now
ConstructInit ==
    /\ now \in Times
    /\ state_file \in SavedFiles
    /\ state_file \notin {None, Some(Garbage)}
         => LET saved == Unwrap(state_file) IN
            /\ saved.avail_release /= None => saved.last_check /= None
            /\ saved.last_check /= None => saved.last_check[1] <= now
    /\ env_version = None
    /\ cache_async = None
    /\ cache_sync = None
    /\ alive = FALSE
    /\ current_version = 0
    /\ avail_release = None
    /\ last_check = None
    /\ update_interval = UPDATE_INTERVAL
    /\ worker_state = None
    /\ nchan = 0
    /\ chan = [i \in Channels |-> NoChan]
    /\ worker = [i \in Channels |-> NoWorker]
    /\ pc = "idle"
    /\ ret = NoRet
    /\ net_calls = 0
    /\ fresh = FALSE
    /\ queried = FALSE
    /\ last_good = None
    /\ wf_env = TestEnv
    /\ path = None
    /\ artifact = None
    /\ observed = NotRead
    /\ NoData
    /\ latest_release = None

ConstructNext ==
    \/ \E env \in EnvVersions : load_or_new(env)
    \/ Exit
    \/ Tick

ConstructSpec == ConstructInit /\ [][ConstructNext]_vars

-----------------------------------------------------------------------------
\* Writing the files, step by step, while a second host process reads them.
\* Updater::save and Updater::write_last_check_status open the file itself
\* with File::create, which truncates it, and then write the JSON text
\* through a BufWriter of 128 bytes. Until the text is complete the file
\* holds a prefix of it, which does not deserialize: Garbage.

Releases == {None} \cup {Some(UpdateInfo(v)) : v \in Versions}

\* Updater::save, File::create; the Updater has changed its state (the
\* caller of save has set last_check or avail_release)
save_create ==
    /\ alive /\ pc = "idle"
    /\ state_file /= save(current_version, avail_release, last_check)
    /\ state_file' = Some(Garbage)
    /\ pc' = "saving"
    /\ UNCHANGED <<now, env_version, cache_async, cache_sync, alive, state,
                   threads, ret, net_calls, fresh, queried, last_good,
                   workflow>>

\* Updater::save, serde_json::to_writer and the end of the BufWriter
save_write ==
    /\ pc = "saving"
    /\ state_file' = save(current_version, avail_release, last_check)
    /\ pc' = "idle"
    /\ UNCHANGED <<now, env_version, cache_async, cache_sync, alive, state,
                   threads, ret, net_calls, fresh, queried, last_good,
                   workflow>>

\* Updater::write_last_check_status in the worker, File::create; WorkerWrite
\* is the rest
WorkerCreate(i) ==
    /\ worker[i].pc = "write"
    /\ cache_async /= Some(Some(Garbage))
    /\ cache_async' = Some(Some(Garbage))
    /\ UNCHANGED <<now, env_version, state_file, cache_sync, alive, state,
                   threads, pc, ret, net_calls, fresh, queried, last_good,
                   workflow>>

\* The other process: Updater::load, File::open and from_reader
peer_load ==
    /\ observed' = [observed EXCEPT !.state = state_file]
    /\ UNCHANGED <<updater, wf_env, path, artifact, store, github>>

\* The other process: Updater::read_last_check_status in its init
peer_read_last_check_status ==
    /\ observed' = [observed EXCEPT !.status = cache_async]
    /\ UNCHANGED <<updater, wf_env, path, artifact, store, github>>

\* Either a worker has the answer of the release source and is about to
\* write the cache file, or the caller has received the worker's message,
\* merged it, set last_check and is about to save
ReplaceInit ==
    /\ now \in Times
    /\ env_version = None
    /\ \E cv \in Versions, ar \in Releases, lc \in Times :
         /\ lc <= now
         /\ state_file = save(cv, ar, Some(lc))
         /\ current_version = cv
         /\ \/ /\ avail_release = ar
               /\ last_check = Some(lc)
               /\ \E v \in Versions :
                    worker = [i \in Channels |->
                                IF i = 1
                                THEN [pc |-> "write",
                                      payload |-> Some(UpdateInfo(v)),
                                      fetched_at |-> Some(now)]
                                ELSE NoWorker]
               /\ chan = [i \in Channels |->
                            IF i = 1 THEN [msgs |-> <<>>, tx |-> TRUE]
                            ELSE NoChan]
               /\ worker_state = Some(MPSCState(1))
            \/ /\ avail_release \in Releases
               /\ last_check = Some(now)
               /\ worker = [i \in Channels |->
                              IF i = 1
                              THEN [pc |-> "done", payload |-> None,
                                    fetched_at |-> Some(now)]
                              ELSE NoWorker]
               /\ chan = [i \in Channels |->
                            IF i = 1 THEN [msgs |-> <<>>, tx |-> FALSE]
                            ELSE NoChan]
               /\ worker_state
                    = Some(cache_payload(MPSCState(1), OkMsg(avail_release)))
    /\ cache_async \in {None} \cup {Some(r) : r \in Releases}
    /\ cache_sync = None
    /\ alive = TRUE
    /\ update_interval = UPDATE_INTERVAL
    /\ nchan = 1
    /\ pc = "idle"
    /\ ret = NoRet
    /\ net_calls = 1
    /\ fresh = FALSE
    /\ queried = FALSE
    /\ last_good = None
    /\ wf_env = TestEnv
    /\ path = None
    /\ artifact = None
    /\ observed = NotRead
    /\ NoData
    /\ latest_release = None

ReplaceNext ==
    \/ save_create
    \/ save_write
    \/ \E i \in Channels : WorkerCreate(i)
    \/ \E i \in Channels : WorkerWrite(i)
    \/ peer_load
    \/ peer_read_last_check_status

ReplaceSpec == ReplaceInit /\ [][ReplaceNext]_vars

-----------------------------------------------------------------------------
\* Module data. A value given to set or save_to_file is a Rust value of some
\* type, written [ty, repr]; a JSON value or text is written as its text.

\* Values of types that implement Serialize: an integer, a finite and an
\* infinite float, and a map whose keys are not strings
TypedValues ==
    {[ty |-> "i64", repr |-> "8"], [ty |-> "f64", repr |-> "1.5"],
     [ty |-> "f64", repr |-> "inf"], [ty |-> "map", repr |-> "{(1,2):3}"]}

Types == {"i64", "f64"}

\* serde_json::to_value(v) and serde_json::to_writer(w, v): the JSON of v,
\* null for a float that is not finite, None (an error) for a map whose
\* keys are not strings
to_value(v) ==
    CASE v.ty = "map" -> None
      [] v.ty = "f64" /\ v.repr = "inf" -> Some("null")
      [] OTHER -> Some(v.repr)

\* serde_json::from_value::<ty>(j).ok() and from_str::<ty>(j).ok(); the empty
\* text is a truncated file
from_value(j, ty) ==
    CASE j \in {"null", ""} -> None
      [] ty = "i64" /\ j /= "8" -> None
      [] OTHER -> Some([ty |-> ty, repr |-> j])

\* HashMap::new() and HashMap::insert
EmptyMap == [k \in {} |-> "null"]
insert(m, k, j) == [x \in DOMAIN m \cup {k} |-> IF x = k THEN j ELSE m[x]]

\* Data::read_data_from_disk().ok(): from_str::<Data> of the file
read_data_from_disk(file) ==
    IF IsSome(file) /\ DOMAIN Unwrap(file) = {"inner"}
    THEN Some(Unwrap(file).inner) ELSE None

\* Data::load
Data_load ==
    /\ data' = Some(IF IsSome(read_data_from_disk(data_file))
                    THEN Unwrap(read_data_from_disk(data_file))
                    ELSE EmptyMap)
    /\ ret' = Ret("Data::load", TRUE, FALSE, "none", None)
    /\ UNCHANGED <<now, env_version, disk, alive, state, threads, pc,
                   net_calls, fresh, queried, last_good, wf_env, path,
                   artifact, peer, github, data_file, cache_files, got, was_set,
                   was_saved>>

\* What can happen in write_data_to_disk: all goes well; creating, writing or
\* renaming the temporary file fails; the text fits the buffer of the
\* BufWriter and writing it out when the BufWriter is dropped fails
WriteOutcomes == {"ok", "io", "lost"}

\* Data::set(k, v)
Data_set(k, v) ==
    /\ IsSome(data)
    /\ IF ~IsSome(to_value(v))
       THEN /\ ret' = Ret("Data::set", FALSE, FALSE, "serialize", None)
            /\ UNCHANGED <<data, data_file, was_set>>
       ELSE LET inner == insert(Unwrap(data), k, Unwrap(to_value(v))) IN
            /\ data' = Some(inner)
            /\ \E outcome \in WriteOutcomes :
                 /\ ret' = Ret("Data::set", outcome /= "io", FALSE, outcome,
                               None)
                 /\ data_file' =
                      CASE outcome = "ok" -> Some([inner |-> inner])
                        [] outcome = "io" -> data_file
                        \* the truncated temporary file is renamed
                        [] outcome = "lost" -> Some(Garbage)
                 /\ was_set' = IF outcome /= "io"
                               THEN [was_set EXCEPT ![k] = Some(v)]
                               ELSE was_set
    /\ UNCHANGED <<now, env_version, disk, alive, state, threads, pc,
                   net_calls, fresh, queried, last_good, wf_env, path,
                   artifact, peer, github, cache_files, got, was_saved>>

\* Data::get::<ty>(k)
Data_get(k, ty) ==
    /\ IsSome(data)
    /\ got' = IF k \in DOMAIN Unwrap(data)
              THEN from_value(Unwrap(data)[k], ty) ELSE None
    /\ ret' = Ret("Data::get", TRUE, FALSE, k, None)
    /\ UNCHANGED <<now, env_version, disk, alive, state, threads, pc,
                   net_calls, fresh, queried, last_good, wf_env, path,
                   artifact, peer, github, data, data_file, cache_files,
                   was_set,
                   was_saved>>

DataNext ==
    \/ Data_load
    \/ \E k \in Keys, v \in TypedValues : Data_set(k, v)
    \/ \E k \in Keys, ty \in Types : Data_get(k, ty)

DataSpec == Init /\ [][DataNext]_vars

\* ---------------------------------------------------------------------
\* Module data: files of the cache directory (save_to_file, load_from_file)

\* Path::file_name: the last component of p, none for ".."
file_name(p) ==
    CASE p = ".." -> None
      [] p = "dir/x" -> Some("x")
      [] OTHER -> Some(p)

\* What can happen to the file in save_to_file: all goes well; File::create
\* fails; a write of the text fails and is reported; the text fits the buffer
\* of the BufWriter and writing it out when the BufWriter is dropped fails
SaveOutcomes == {"ok", "create", "io", "lost"}

\* Data::save_to_file(p, v): File::create empties the file before the value
\* is serialized into it
save_to_file(p, v) ==
    /\ IF ~IsSome(file_name(p))
       THEN /\ ret' = Ret("save_to_file", FALSE, FALSE, "file_name", None)
            /\ UNCHANGED <<cache_files, was_saved>>
       ELSE LET n == Unwrap(file_name(p)) IN
            \E outcome \in SaveOutcomes :
              CASE outcome = "create" ->
                     /\ ret' = Ret("save_to_file", FALSE, FALSE, "create",
                                   None)
                     /\ UNCHANGED <<cache_files, was_saved>>
                [] ~IsSome(to_value(v)) ->
                     /\ ret' = Ret("save_to_file", FALSE, FALSE, "serialize",
                                   None)
                     /\ cache_files' = [cache_files EXCEPT ![n] = Some("")]
                     /\ UNCHANGED was_saved
                [] outcome = "io" /\ IsSome(to_value(v)) ->
                     /\ ret' = Ret("save_to_file", FALSE, FALSE, "io", None)
                     /\ cache_files' = [cache_files EXCEPT ![n] = Some("")]
                     /\ UNCHANGED was_saved
                [] outcome = "lost" /\ IsSome(to_value(v)) ->
                     /\ ret' = Ret("save_to_file", TRUE, FALSE, "lost", None)
                     /\ cache_files' = [cache_files EXCEPT ![n] = Some("")]
                     /\ was_saved' = [was_saved EXCEPT ![n] = Some(v)]
                [] outcome = "ok" /\ IsSome(to_value(v)) ->
                     /\ ret' = Ret("save_to_file", TRUE, FALSE, "ok", None)
                     /\ cache_files' =
                          [cache_files EXCEPT ![n] = to_value(v)]
                     /\ was_saved' = [was_saved EXCEPT ![n] = Some(v)]
    /\ UNCHANGED <<now, env_version, disk, alive, state, threads, pc,
                   net_calls, fresh, queried, last_good, wf_env, path,
                   artifact, peer, github, data, data_file, got, was_set>>

\* Data::load_from_file::<ty>(p)
load_from_file(p, ty) ==
    /\ got' = IF IsSome(file_name(p))
                 /\ IsSome(cache_files[Unwrap(file_name(p))])
              THEN from_value(Unwrap(cache_files[Unwrap(file_name(p))]), ty)
              ELSE None
    /\ ret' = Ret("load_from_file", TRUE, FALSE, p, None)
    /\ UNCHANGED <<now, env_version, disk, alive, state, threads, pc,
                   net_calls, fresh, queried, last_good, wf_env, path,
                   artifact, peer, github, data, data_file, cache_files,
                   was_set,
                   was_saved>>

CacheNext ==
    \/ \E p \in Paths, v \in TypedValues : save_to_file(p, v)
    \/ \E p \in Paths, ty \in Types : load_from_file(p, ty)

CacheSpec == Init /\ [][CacheNext]_vars

-----------------------------------------------------------------------------
\* GithubReleaser::downloadable_url. A URL is a sequence of pieces of text:
\* the scheme and host, if any, then the name, then the extension.

MaxAssets == 3

\* browser_download_url of an asset: absolute URLs, one of them with scheme
\* and host in capitals, and one text without scheme that is not a URL
AssetUrls ==
    {<<"http://h/", "a.", "alfredworkflow">>,
     <<"HTTP://H/", "b.", "alfredworkflow">>,
     <<"http://h/", "c.", "alfred3workflow">>,
     <<"http://h/", "d.", "alfred3workflow">>,
     <<"e.", "alfred3workflow">>,
     <<"http://h/", "f.", "zip">>}

AssetStates == {"uploaded", "new"}

\* struct ReleaseAsset
ReleaseAssets == [state : AssetStates, browser_download_url : AssetUrls]

\* ReleaseItem.assets
AssetLists == UNION {[1..n -> ReleaseAssets] : n \in 0..MaxAssets}

\* str::ends_with
ends_with(u, suffix) == Len(u) > 0 /\ u[Len(u)] = suffix

\* Url::parse(u).ok(): the scheme and the host in lower case; a text
\* without scheme is a relative URL without a base, an error
Url_parse(u) ==
    CASE u[1] \in {"http://h/", "HTTP://H/"} ->
           Some(<<"http://h/">> \o Tail(u))
      [] OTHER -> None

\* The assets downloadable_url keeps
usable_any_state(asset) ==
    \/ ends_with(asset.browser_download_url, "alfredworkflow")
    \/ ends_with(asset.browser_download_url, "alfred3workflow")
usable(asset) ==
    /\ asset.state = "uploaded"
    /\ \/ ends_with(asset.browser_download_url, "alfredworkflow")
       \/ ends_with(asset.browser_download_url, "alfred3workflow")

is_alfred3(asset) == ends_with(asset.browser_download_url, "alfred3workflow")
is_alfred(asset) == ends_with(asset.browser_download_url, "alfredworkflow")

\* GithubReleaser::downloadable_url as a function of latest_release: Some(url)
\* for Ok(url), None for an error
downloadable_url_of(release) ==
    IF ~IsSome(release) THEN None
    ELSE \* iter().filter(..).collect()
         LET urls == SelectSeq(Unwrap(release).assets, usable) IN
         CASE Len(urls) = 0 -> None
           [] Len(urls) = 1 -> Url_parse(urls[1].browser_download_url)
           [] OTHER ->
                \* urls.iter().find(..): the first that satisfies, if any
                LET found == SelectSeq(urls, is_alfred3)
                    url == IF found = <<>> THEN None ELSE Some(Head(found))
                    u == IF IsSome(url) THEN Unwrap(url) ELSE urls[1]
                IN Url_parse(u.browser_download_url)

\* GithubReleaser::downloadable_url
downloadable_url ==
    /\ ret' = Ret("downloadable_url", IsSome(downloadable_url_of(latest_release)),
                  FALSE, "none", downloadable_url_of(latest_release))
    /\ UNCHANGED <<now, env_version, disk, alive, state, threads, pc,
                   net_calls, fresh, queried, last_good, workflow>>

\* The releaser before latest_version was called, or holding any release
ReleaserInit ==
    /\ NoUpdater
    /\ wf_env = TestEnv
    /\ path = None
    /\ artifact = None
    /\ observed = NotRead
    /\ NoData
    /\ latest_release \in
         {None} \cup {Some([tag_name |-> 1, assets |-> a]) : a \in AssetLists}

ReleaserNext == downloadable_url

ReleaserSpec == ReleaserInit /\ [][ReleaserNext]_vars

-----------------------------------------------------------------------------
\* GithubReleaser as a whole: latest_release_data, latest_version,
\* downloadable_url and fetch_latest_release on one instance. A tag name is
\* a sequence of pieces of text, the letter v or a number or other text.

\* ReleaseItem.tag_name as github.com sends it
TagNames == {<<"v", "1">>, <<"0">>, <<"v", "v", "1">>, <<"x">>}

\* What the server answers to GET .../releases/latest: an error status, or
\* the JSON of a ReleaseItem
HttpError == [status |-> 400]
HttpResponses ==
    {HttpError}
      \cup {[tag_name |-> t, assets |-> a] :
              t \in TagNames, a \in {l \in AssetLists : Len(l) <= 1}}

\* if latest.tag_name.starts_with('v') { latest.tag_name.remove(0); }
strip_v(tag) == IF Len(tag) > 0 /\ tag[1] = "v" THEN Tail(tag) ELSE tag

\* Version::parse(&r.tag_name).ok()
tag_version(tag) ==
    CASE tag = <<"0">> -> Some(0)
      [] tag = <<"1">> -> Some(1)
      [] OTHER -> None

\* latest_release_data: the content of self.latest_release afterwards, still
\* None if the request failed
latest_release_data(resp) ==
    IF resp = HttpError THEN None
    ELSE Some([tag_name |-> strip_v(resp.tag_name), assets |-> resp.assets])

\* (mutant) every call asks the server
needs_fetch_always(lr) == TRUE

\* self.latest_release.borrow().is_none()
needs_fetch(lr) == lr = None

\* self.latest_release after the first lines of latest_version and of
\* fetch_latest_release
fetched(lr, resp) == IF needs_fetch(lr) THEN latest_release_data(resp) ELSE lr

\* The result of latest_version and of fetch_latest_release on a releaser
\* that holds lr: an error, a panic of the calling thread (the unwrap of
\* Version::parse(..).ok() in latest_version), or a value
Outcome(kind, value) == [kind |-> kind, value |-> value]

latest_version_of(lr) ==
    IF ~IsSome(lr) THEN Outcome("err", None)
    ELSE IF ~IsSome(tag_version(Unwrap(lr).tag_name))
    THEN Outcome("panic", None)
    ELSE Outcome("ok", tag_version(Unwrap(lr).tag_name))

fetch_latest_release_of(lr) ==
    IF latest_version_of(lr).kind /= "ok" THEN latest_version_of(lr)
    ELSE IF ~IsSome(downloadable_url_of(lr)) THEN Outcome("err", None)
    ELSE Outcome("ok", Some([version |-> Unwrap(latest_version_of(lr).value),
                             url |-> Unwrap(downloadable_url_of(lr))]))

\* GithubReleaser::latest_version, the server answering resp if asked
latest_version(resp) ==
    /\ latest_release' = fetched(latest_release, resp)
    /\ net_calls' = IF needs_fetch(latest_release)
                    THEN (net_calls + 1) % 2 ELSE net_calls
    /\ LET out == latest_version_of(latest_release') IN
       ret' = Ret("latest_version", out.kind = "ok", FALSE, out.kind,
                  out.value)
    /\ UNCHANGED <<now, env_version, disk, alive, state, threads, pc, fresh,
                   queried, last_good, wf_env, path, artifact, peer, store>>

\* GithubReleaser::fetch_latest_release, the server answering resp if asked
fetch_latest_release(resp) ==
    /\ latest_release' = fetched(latest_release, resp)
    /\ net_calls' = IF needs_fetch(latest_release)
                    THEN (net_calls + 1) % 2 ELSE net_calls
    /\ LET out == fetch_latest_release_of(latest_release') IN
       ret' = Ret("fetch_latest_release", out.kind = "ok", FALSE, out.kind,
                  out.value)
    /\ UNCHANGED <<now, env_version, disk, alive, state, threads, pc, fresh,
                   queried, last_good, wf_env, path, artifact, peer, store>>

GithubNext ==
    \/ \E resp \in HttpResponses : latest_version(resp)
    \/ \E resp \in HttpResponses : fetch_latest_release(resp)
    \/ downloadable_url

GithubSpec == Init /\ [][GithubNext]_vars

-----------------------------------------------------------------------------
\* Updater::init on every state an Updater can have when init is called:
\* built by load_or_new from any saved state, at any time, with either
\* interval, next to any async status cache file, whole or not.

CacheFiles ==
    {None, Some(None), Some(Some(Garbage))}
      \cup {Some(Some(UpdateInfo(v))) : v \in Versions}

BranchInit ==
    /\ now \in 0..MaxDueTime
    /\ env_version = None
    /\ current_version \in Versions
    /\ avail_release \in Releases
    /\ last_check \in {None} \cup {Some(t) : t \in 0..now}
    \* a release is stored by a check, which sets last_check
    /\ IsSome(avail_release) => IsSome(last_check)
    /\ update_interval \in Intervals
    /\ state_file = save(current_version, avail_release, last_check)
    /\ cache_async \in CacheFiles
    /\ cache_sync = None
    /\ alive = TRUE
    /\ worker_state = None
    /\ nchan = 0
    /\ chan = [i \in Channels |-> NoChan]
    /\ worker = [i \in Channels |-> NoWorker]
    /\ pc = "idle"
    /\ ret = NoRet
    /\ net_calls = 0
    /\ fresh = (last_check = None)
    /\ queried = FALSE
    /\ last_good = None
    /\ wf_env = TestEnv
    /\ path = None
    /\ artifact = None
    /\ observed = NotRead
    /\ NoData
    /\ latest_release = None

BranchNext == init

BranchSpec == BranchInit /\ [][BranchNext]_vars

-----------------------------------------------------------------------------
\* The worker threads when init is called more than once and when writing
\* the async status cache file fails.
\* write_last_check_status removes the file on an error; the old file stays
\* if it could neither be created anew nor removed.

\* (mutant) the error of the write ends the thread and nothing is sent
WorkerWriteFails_silent(i) ==
    /\ worker[i].pc = "write"
    /\ cache_async' \in {None, cache_async}
    /\ chan' = [chan EXCEPT ![i].tx = FALSE]
    /\ worker' = [worker EXCEPT ![i].pc = "done"]
    /\ UNCHANGED workflow
    /\ UNCHANGED <<now, env_version, state_file, cache_sync, alive, state,
                   nchan, pc, ret, net_calls, fresh, queried, last_good>>

\* Self::write_last_check_status(&p, &payload)? fails, then
\* tx.send(Err(error)); the thread ends with the release it could not write
WorkerWriteFails(i) ==
    /\ worker[i].pc = "write"
    /\ cache_async' \in {None, cache_async}
    /\ chan' = send(chan, i, ErrMsg)
    /\ worker' = [worker EXCEPT ![i].pc = "done"]
    /\ UNCHANGED workflow
    /\ UNCHANGED <<now, env_version, state_file, cache_sync, alive, state,
                   nchan, pc, ret, net_calls, fresh, queried, last_good>>

\* init can be called again on the same Updater
WorkerNext ==
    \/ Next
    \/ init_within(MaxReinits)
    \/ \E i \in Channels : WorkerWriteFails(i)

WorkerSpec == Init /\ [][WorkerNext]_vars

-----------------------------------------------------------------------------
\* One invocation from every state an Updater can have when init is called
\* (BranchInit): init, the worker, the readiness queries, and time passing
\* while the worker runs and before its message is received.

CycleNext ==
    \/ init
    \/ update_ready
    \/ update_ready_recv
    \/ try_update_ready
    \/ \E i \in Channels : WorkerFetch(i)
    \/ \E i \in Channels : WorkerWrite(i)
    \/ Tick_within(MaxDueTime)

CycleSpec == BranchInit /\ [][CycleNext]_vars

-----------------------------------------------------------------------------
\* Updater::save fails. File::create empties the state file, and on an error
\* of File::create or of the write save removes it: afterwards the file is
\* gone, or left as it was (File::create and remove_file both failed), or
\* left in part (the write and remove_file failed).

save_failed(file) == {None, file, Some(Garbage)}

\* update_ready or try_update_ready without init, a check is due, the
\* release source answers, and self.save()? fails (imp.rs 318-335)
update_ready_sync_save_fails(op) ==
    /\ alive /\ pc = "idle"
    /\ use_sync(worker_state)
    /\ ~first_run(last_check)
    /\ due_to_check(last_check, update_interval, now)
    /\ net_calls' = (net_calls + 1) % 2
    /\ \E r \in ReleaserAnswers :
         /\ r.ok
         /\ LET payload == Some(UpdateInfo(r.version)) IN
            /\ cache_sync' = write_last_check_status(payload)
            /\ avail_release' = payload
            /\ last_good' = payload
         /\ ret' = Ret(op, FALSE, FALSE, "save", Some(r))
    /\ last_check' = Some(now)
    /\ state_file' \in save_failed(state_file)
    /\ queried' = TRUE
    /\ UNCHANGED workflow
    /\ UNCHANGED <<now, env_version, cache_async, alive, current_version,
                   update_interval, worker_state, threads, pc, fresh>>

PersistNext ==
    \/ Next
    \/ \E op \in {"update_ready", "try_update_ready"} :
         update_ready_sync_save_fails(op)

PersistSpec == Init /\ [][PersistNext]_vars

-----------------------------------------------------------------------------
\* A release check against a release whose tag is not a version: the
\* unwrap in latest_version panics the thread that runs the check.

\* The releaser, holding nothing, is asked for the latest release while the
\* server answers resp, and panics
latest_release_panics(resp) ==
    fetch_latest_release_of(fetched(None, resp)).kind = "panic"

\* The worker thread panics in releaser.latest_release(): the closure
\* unwinds, tx is dropped and nothing was sent or written
WorkerFetchPanics(i) ==
    /\ worker[i].pc = "fetch"
    /\ \E resp \in HttpResponses : latest_release_panics(resp)
    /\ net_calls' = (net_calls + 1) % 2
    /\ worker' = [worker EXCEPT ![i] = [pc |-> "panicked",
                                        payload |-> None,
                                        fetched_at |-> None]]
    /\ chan' = [chan EXCEPT ![i].tx = FALSE]
    /\ UNCHANGED workflow
    /\ UNCHANGED <<now, env_version, disk, alive, state, nchan, pc, ret,
                   fresh, queried, last_good>>

\* update_ready / try_update_ready on the synchronous path, a check being
\* due: self.releaser.borrow().latest_release() panics in the calling
\* thread, before anything was written. The panic takes the host process
\* down: the Updater, its channels and its threads are gone, the files stay
update_ready_sync_panics(op) ==
    /\ alive /\ pc = "idle"
    /\ use_sync(worker_state)
    /\ ~first_run(last_check)
    /\ due_to_check(last_check, update_interval, now)
    /\ \E resp \in HttpResponses : latest_release_panics(resp)
    /\ ret' = Ret(op, FALSE, FALSE, "panic", None)
    /\ alive' = FALSE
    /\ current_version' = 0
    /\ avail_release' = None
    /\ last_check' = None
    /\ update_interval' = UPDATE_INTERVAL
    /\ worker_state' = None
    /\ nchan' = 0
    /\ chan' = [i \in Channels |-> NoChan]
    /\ worker' = [i \in Channels |-> NoWorker]
    /\ fresh' = FALSE
    /\ queried' = FALSE
    /\ net_calls' = 0
    /\ env_version' = None
    /\ UNCHANGED workflow
    /\ UNCHANGED <<now, disk, pc, last_good>>

TagNext ==
    \/ Next
    \/ \E i \in Channels : WorkerFetchPanics(i)
    \/ \E op \in {"update_ready", "try_update_ready"} :
         update_ready_sync_panics(op)

TagSpec == Init /\ [][TagNext]_vars

-----------------------------------------------------------------------------
\* due_to_check on its own: an Updater loaded at any time from a state with
\* any earlier last_check (or none), with any interval set, is asked whether
\* a check is due.

\* A call of Updater::due_to_check by the host
call_due_to_check ==
    /\ alive /\ pc = "idle"
    /\ ret' = Ret("due_to_check", TRUE,
                  due_to_check(last_check, update_interval, now), "none", None)
    /\ UNCHANGED <<now, env_version, disk, alive, state, threads, pc,
                   net_calls, fresh, queried, last_good, workflow>>

DueInit ==
    /\ now \in 0..MaxDueTime
    /\ last_check \in {None} \cup {Some(t) : t \in 0..now}
    /\ update_interval \in 0..MaxDueTime
    /\ env_version = None
    /\ state_file = save(0, None, last_check)
    /\ cache_async = None
    /\ cache_sync = None
    /\ alive = TRUE
    /\ current_version = 0
    /\ avail_release = None
    /\ worker_state = None
    /\ nchan = 0
    /\ chan = [i \in Channels |-> NoChan]
    /\ worker = [i \in Channels |-> NoWorker]
    /\ pc = "idle"
    /\ ret = NoRet
    /\ net_calls = 0
    /\ fresh = (last_check = None)
    /\ queried = FALSE
    /\ last_good = None
    /\ wf_env = TestEnv
    /\ path = None
    /\ artifact = None
    /\ observed = NotRead
    /\ NoData
    /\ latest_release = None

DueNext == call_due_to_check

DueSpec == DueInit /\ [][DueNext]_vars

-----------------------------------------------------------------------------
\* Vocabulary of the properties

\* This step is not one of the clock or of a worker thread (no call on the
\* Updater moves either of them)
CallerStep == now' = now /\ worker' = worker

\* A readiness query returns in this step
Returns == CallerStep /\ pc' = "idle" /\ Query

IsQuery(r) == r.op \in {"update_ready", "try_update_ready"}

\* It is time to ask the release source: never checked, or more than the
\* interval ago
Due == last_check = None \/ now - last_check[1] > update_interval

\* The same question asked of the last_check in the state file, which is what
\* the next process starts from
DueOnDisk ==
    \/ state_file = None
    \/ state_file[1].last_check = None
    \/ now - state_file[1].last_check[1] > update_interval

\* Release ar (an Option) is present and newer than version cv
Newer(cv, ar) == ar /= None /\ ar[1].version > cv

\* The payload received on the channel the Updater listens to, None before
Received == Unwrap(worker_state).recvd_payload

\* The channel the Updater listens to
Rx == Unwrap(worker_state).rx

\* init spawned a worker for the channel the Updater listens to
Spawned == IsSome(worker_state) /\ worker[Rx].pc /= "none"

NoWorkers == \A i \in Channels : worker[i].pc = "none"

-----------------------------------------------------------------------------
\* C1: on an Updater built with last_check = None (fresh install), the first
\* readiness query, after no init or after one init, returns Ok(false), no
\* call of the release source has been made, and the state file holds
\* last_check = now.
C1_FirstQueryIsFalse ==
    [][(fresh /\ ~queried /\ nchan <= 1 /\ Returns)
         => /\ ret'.ok /\ ~ret'.val
            /\ net_calls' = 0 /\ NoWorkers'
            /\ IsSome(state_file')
            /\ Unwrap(state_file').last_check = Some(now)
            /\ last_check' = Some(now)]_vars

C1_Witness ==
    /\ alive /\ fresh /\ queried /\ nchan = 1
    /\ ret.op = "try_update_ready" /\ ret.branch = "recv"
    /\ ret.ok /\ ~ret.val
    /\ Unwrap(state_file).last_check = Some(now)

\* C2: after the first run, when a readiness query resolves a due check
\* (made inline by the synchronous path, or by the worker that init spawned)
\* for which the release source reported a version V greater than
\* current_version, the query returns Ok(true) and available_release has
\* version V.
C2_DueCheckReportsNewer ==
    [][\A V \in Versions :
         (/\ last_check /= None
          /\ V > current_version
          /\ \/ /\ worker_state = None /\ Due
                /\ ret'.fetched = Some(Release(V))
             \/ /\ Spawned /\ Received = None
                /\ chan[Rx].msgs /= <<>>
                /\ Head(chan[Rx].msgs) = OkMsg(Some(UpdateInfo(V)))
          /\ Returns)
         => /\ ret'.ok /\ ret'.val
            /\ avail_release' = Some(UpdateInfo(V))]_vars

C2_Witness ==
    /\ IsQuery(ret) /\ ret.branch = "recv" /\ ret.ok /\ ret.val
    /\ ret.fetched = Some(Release(MaxVer))
    /\ avail_release = Some(UpdateInfo(MaxVer))
    /\ current_version < MaxVer

\* C3: whenever due_to_check() is false, init and the readiness queries make
\* no call of the release source and spawn no worker, and a readiness query
\* answered without a worker returns Ok(b) where b is the answer of the last
\* successful check: its release is newer than current_version.
C3_NotDueAnswersFromLastCheck ==
    [][(/\ ~Due
        /\ init \/ (Returns /\ ~Spawned))
         => /\ net_calls' = net_calls
            /\ \A i \in Channels : worker'[i].pc /= "fetch"
            /\ Returns => /\ ret'.ok
                          /\ ret'.val = Newer(current_version, last_good)]_vars

\* C4: once a payload has been received after init, every further readiness
\* query on the Updater returns Ok(b) with b the comparison of the received
\* payload with current_version, the same b as the query before it, and
\* changes neither the channel, nor the count of release-source calls, nor
\* the workers, nor the state.
C4_ResolvedIsIdempotent ==
    [][(/\ IsSome(worker_state)
        /\ \/ Received /= None
           \/ IsQuery(ret) /\ ret.ok
        /\ CallerStep /\ Query)
         => /\ ret'.ok /\ pc' = "idle"
            /\ Received /= None
            /\ ret'.val = Newer(current_version, Received[1].payload)
            /\ IsQuery(ret) => ret'.val = ret.val
            /\ UNCHANGED <<chan, net_calls, worker, avail_release, last_check,
                           state_file, worker_state, cache_async>>]_vars

C4_Witness ==
    /\ IsQuery(ret) /\ ret.branch = "recvd" /\ ret.ok /\ ret.val
    /\ Spawned /\ worker[Rx].pc = "done"
    /\ update_interval = UPDATE_INTERVAL /\ ~Due

\* C5: an Updater loaded from a saved state has the environment version as
\* current_version when that parses and is greater than the saved
\* current_version, and the saved current_version otherwise; never a lower
\* one than the saved.
C5_NewerWins ==
    (ret.op = "load_or_new" /\ ret.branch = "load")
      => LET saved == Unwrap(state_file).current_version
             env_newer == /\ IsSome(env_version)
                          /\ Unwrap(env_version) \in Versions
                          /\ Unwrap(env_version) > saved
         IN /\ env_newer => current_version = Unwrap(env_version)
            /\ ~env_newer => current_version = saved
            /\ current_version >= saved

C5_Witness ==
    /\ ret.op = "load_or_new" /\ ret.branch = "load"
    /\ env_version = Some(current_version)
    /\ current_version > Unwrap(state_file).current_version

\* C6: when the release source fails during a due check, the worker sends
\* the error through the channel and the readiness query that resolves the
\* check returns an error, on the synchronous path too: never Ok(false).
C6_FailureIsAnError ==
    [][/\ \A i \in Channels :
            (RxAlive(i) /\ worker'[i].pc = "done" /\ WorkerFetch(i))
              => /\ Len(chan'[i].msgs) = 1 /\ ~chan'[i].msgs[1].ok
                 /\ ~chan'[i].tx
       /\ (/\ Spawned /\ Received = None
           /\ chan[Rx].msgs /= <<>> /\ ~Head(chan[Rx].msgs).ok
           /\ Returns)
            => ~ret'.ok
       /\ (ret'.fetched = Some(Failure) /\ Returns) => ~ret'.ok]_vars

C6_Witness ==
    /\ ret.op = "update_ready" /\ ret.branch = "recv" /\ ~ret.ok
    /\ ret.fetched = Some(Failure)
    /\ Spawned /\ worker[Rx].pc = "done"

\* C7: whenever a readiness query returns Ok(b), b is true if and only if
\* available_release is present with a version greater than current_version.
C7_OkIffNewer ==
    (IsQuery(ret) /\ ret.ok)
      => (ret.val <=> Newer(current_version, avail_release))

\* C8: try_update_ready never blocks; while the worker that init spawned has
\* not sent its message, it returns an error and leaves last_check,
\* available_release, the received-payload slot, the channel and the state
\* file unchanged.
C8_TryNeverBlocks ==
    [][(CallerStep /\ try_update_ready)
         => /\ pc' = "idle"
            /\ (/\ Spawned /\ Received = None
                /\ chan[Rx].msgs = <<>> /\ chan[Rx].tx)
                 => /\ ~ret'.ok
                    /\ UNCHANGED <<last_check, avail_release, worker_state,
                                   state_file, chan, worker>>]_vars

C8_Witness ==
    /\ ret.op = "try_update_ready" /\ ret.branch = "empty" /\ ~ret.ok
    /\ Spawned /\ worker[Rx].pc \in {"fetch", "write"}
    /\ chan[Rx].msgs = <<>>

\* C9: a blocked update_ready always returns: the worker sends a message or
\* drops the sender.
C9_UpdateReadyReturns == (pc = "blocked") ~> (pc = "idle")

C9_Witness ==
    /\ pc = "blocked" /\ Spawned /\ worker[Rx].pc = "fetch"
    /\ ret.op = "update_ready"

\* C10: after init spawned a worker whose call of the release source
\* succeeded, a caller that keeps asking receives the worker's payload as
\* Ok(boolean), unless it drops the Updater or calls init again.
C10_PollingGetsTheResult ==
    \A i \in Channels :
      (alive /\ RxAlive(i) /\ worker[i].pc = "write")
        ~> \/ /\ alive /\ RxAlive(i)
              /\ Received /= None
              /\ IsQuery(ret) /\ ret.ok /\ ret.branch = "recv"
           \/ ~alive
           \/ ~RxAlive(i)

C10_Witness ==
    /\ ret.op = "try_update_ready" /\ ret.branch = "empty"
    /\ Spawned /\ worker[Rx].pc = "write"

\* C14: build_data_fn names the state file uid, "-", the display name with
\* each character that is not an ASCII letter or digit replaced by one "_"
\* and the others kept, "-updater.json"; calling it again gives the same
\* name.
C14_StateFileName ==
    [][(build_data_fn /\ IsSome(wf_env.uid) /\ IsSome(wf_env.name))
         => LET uid == wf_env.uid[1]
                name == wf_env.name[1]
                fn == path'[1]
                n == Len(uid)
            IN  /\ ret'.ok /\ path' /= None
                /\ Len(fn) = n + 1 + Len(name) + 1
                /\ \A i \in 1..n : fn[i] = uid[i]
                /\ fn[n + 1] = "-"
                /\ \A i \in 1..Len(name) :
                     fn[n + 1 + i] = IF name[i] \in {"a", "7"} THEN name[i]
                                     ELSE "_"
                /\ fn[Len(fn)] = "-updater.json"
                /\ ret.op = "build_data_fn" => path' = path]_vars

C14_Witness ==
    /\ ret.op = "build_data_fn" /\ ret.ok
    /\ wf_env = [uid |-> <<<<"/">>>>, name |-> <<<<"U+30D5", "7">>>>]
    /\ path = <<<<"/", "-", "_", "7", "-updater.json">>>>

\* C20: due_to_check returns true if and only if last_check is None or
\* now - last_check is greater than the interval (exactly the interval is not
\* due), and it changes neither the Updater nor any file.
C20_DueToCheck ==
    [][call_due_to_check
         => /\ ret'.ok
            /\ ret'.val <=> (\/ last_check = None
                             \/ now - last_check[1] > update_interval)
            /\ UNCHANGED <<now, disk, state, threads, net_calls, workflow>>]_vars

C20_Witness ==
    /\ ret.op = "due_to_check" /\ ~ret.val
    /\ last_check /= None /\ update_interval > 0
    /\ now - last_check[1] = update_interval

\* C19: the interval belongs to one Updater only: set_interval changes
\* nothing but the interval of the Updater in memory (no file is written),
\* the state file has no interval in it, and every Updater built later
\* starts with the default interval again.
C19_IntervalOfSession ==
    [][/\ (\E tick \in Intervals : set_interval(tick))
            => /\ disk' = disk
               /\ UNCHANGED <<current_version, avail_release, last_check>>
       /\ (\E env \in EnvVersions : load_or_new(env))
            => update_interval' = UPDATE_INTERVAL
       /\ state_file' /= None
            => DOMAIN state_file'[1]
                 = {"current_version", "avail_release", "last_check"}]_vars

\* An Updater loaded from the state file with the default interval, after a
\* run that fetched a release: within MaxTime that run had the interval 0.
C19_Witness ==
    /\ alive /\ ret.op = "load_or_new" /\ ret.branch = "load"
    /\ update_interval = UPDATE_INTERVAL
    /\ cache_sync /= None

\* C18: after every operation that returns successfully (construction,
\* set_version, init, update_ready, try_update_ready) the state file holds
\* the current_version, avail_release and last_check of the Updater.
C18_StateFileInStep ==
    [][(CallerStep /\ alive'
          /\ \/ \E env \in EnvVersions : load_or_new(env)
             \/ \E v \in Versions : set_version(v)
             \/ init
             \/ Returns /\ ret'.ok)
         => state_file'
              = Some([current_version |-> current_version',
                      avail_release |-> avail_release',
                      last_check |-> last_check'])]_vars

\* C15: a check of the release source that failed does not make later
\* invocations skip the call: when a query returns the failure of the check,
\* a check is still due, for this Updater and for one loaded from the file.
C15_FailedCheckStaysDue ==
    [][(ret'.fetched = Some(Failure) /\ Returns)
         => Due' /\ DueOnDisk']_vars

\* C16: a call of the release source is made only if more than the interval
\* has passed since the last call: when a query returns having called the
\* release source, a check is not due again at the same instant.
C16_CallsAnIntervalApart ==
    [][(net_calls' /= net_calls /\ Returns)
         => ~Due' /\ ~DueOnDisk']_vars

\* C17: a query that is answered from the local cache (the check was not
\* due, init spawned no worker) does not postpone the next check: it leaves
\* last_check, in memory and in the state file, as it was.
C17_CacheAnswerKeepsLastCheck ==
    [][(~Due /\ ~fresh /\ ~Spawned /\ ret'.ok /\ Returns)
         => /\ last_check' = last_check
            /\ state_file' /= None
            /\ state_file'[1].last_check = last_check]_vars

C12_DownloadFileName ==
    [][(download_latest /\ ret'.ok)
         => path' = Some(<<"latest_release_">> \o workflow_name(wf_env)
                           \o <<".alfredworkflow">>)]_vars

\* C13: download_latest never leaves a truncated file: after it returned,
\* the file with the download name is absent or complete, and when copying
\* the body into the created file failed, the file is gone.
C13_NoTruncatedArtifact ==
    [][download_latest
         => /\ artifact' /= None => artifact'[1].complete
            /\ ret'.branch = "copy" => artifact' = None]_vars

\* C21: with the state file missing or not deserializable, and an
\* environment version that is absent or valid, construction gives an
\* Updater with that version (0 if absent), no last_check, no release and
\* the default interval, and the state file holds that state when it
\* returns, so that it loads.
C21_SelfHealing ==
    [][\A env \in EnvVersions :
         (/\ state_file \in {None, Some(Garbage)}
          /\ env = None \/ env[1] \in Versions
          /\ load_or_new(env))
         => /\ alive' /\ ret'.ok
            /\ current_version' = (IF env = None THEN 0 ELSE env[1])
            /\ last_check' = None
            /\ avail_release' = None
            /\ update_interval' = UPDATE_INTERVAL
            /\ state_file' = Some([current_version |-> current_version',
                                   avail_release |-> None,
                                   last_check |-> None])
            /\ load(state_file') = state_file']_vars

\* An Updater built over a state file that did not deserialize
C21_Witness ==
    /\ alive /\ ret.op = "load_or_new" /\ ret.branch = "unreadable"
    /\ current_version = MaxVer
    /\ state_file = Some([current_version |-> MaxVer, avail_release |-> None,
                          last_check |-> None])

\* C22: with no state to load and an environment version that is not a
\* semantic version, construction fails: no Updater, and the state file is
\* left as it was (none is written).
C22_BadVersionIsAnError ==
    [][(/\ state_file \in {None, Some(Garbage)}
        /\ load_or_new(Some(Unparseable)))
         => /\ ~ret'.ok /\ ~alive'
            /\ state_file' = state_file]_vars

C22_Witness ==
    /\ ret.op = "load_or_new" /\ ~ret.ok /\ ~alive
    /\ state_file = None

\* C23: the state file and the async status cache file are replaced
\* atomically: a process that reads one of them while it is being written
\* gets the complete old or the complete new content, never a partly
\* written file.
C23_ReaderSeesWholeFile ==
    /\ observed.state /= Some(Garbage)
    /\ observed.status /= Some(Some(Garbage))

\* C24: a Data loaded after any sequence of successful set calls has exactly
\* the keys that were set, and get (with the type of the value) returns
\* for each key the value of its last set.
C24_DataRoundTrip ==
    [][Data_load
         => \A k \in Keys :
              LET inner == Unwrap(data') IN
              IF was_set[k] = None
              THEN k \notin DOMAIN inner
              ELSE /\ k \in DOMAIN inner
                   /\ from_value(inner[k], was_set[k][1].ty) = was_set[k]]_vars

\* C25: load_from_file returns the value of the most recent save_to_file to
\* the same file name that returned Ok, when it is asked for the type of
\* that value.
C25_LoadReturnsLastSave ==
    [][\A p \in Paths, ty \in Types :
         (/\ load_from_file(p, ty)
          /\ IsSome(file_name(p))
          /\ IsSome(was_saved[Unwrap(file_name(p))])
          /\ Unwrap(was_saved[Unwrap(file_name(p))]).ty = ty)
         => got' = was_saved[Unwrap(file_name(p))]]_vars

\* C26: downloadable_url, called on a releaser that holds the latest
\* release, answers with the browser_download_url of the first asset that is
\* uploaded and ends in alfred3workflow if there is one, else of the first
\* asset that is uploaded and ends in alfredworkflow, and with an error if
\* there is neither. The answer is the URL as Url::parse reads it, an error
\* if the text of the chosen asset is not an absolute URL.
C26_AssetSelection ==
    [][(downloadable_url /\ IsSome(latest_release))
         => LET uploaded == SelectSeq(Unwrap(latest_release).assets,
                                      LAMBDA a : a.state = "uploaded")
                threes == SelectSeq(uploaded, is_alfred3)
                plain == SelectSeq(uploaded, is_alfred)
            IN ret'.fetched =
                 IF threes /= <<>>
                 THEN Url_parse(threes[1].browser_download_url)
                 ELSE IF plain /= <<>>
                 THEN Url_parse(plain[1].browser_download_url)
                 ELSE None]_vars

\* An uploaded alfredworkflow asset comes first, two uploaded
\* alfred3workflow assets follow, and the first of these was chosen
C26_Witness ==
    /\ ret.op = "downloadable_url"
    /\ IsSome(latest_release)
    /\ LET assets == Unwrap(latest_release).assets IN
       /\ Len(assets) = 3
       /\ \A i \in 1..3 : assets[i].state = "uploaded"
       /\ is_alfred(assets[1])
       /\ is_alfred3(assets[2]) /\ is_alfred3(assets[3])
       /\ assets[2] /= assets[3]
       /\ ret.fetched = Some(assets[2].browser_download_url)

\* C27: init takes one of three branches. With last_check = None it spawns no
\* worker, sets last_check to now, saves the state and puts Ok(None) in the
\* channel. With a last_check more than the interval ago it spawns one worker
\* and sends nothing itself. Otherwise it spawns no worker and puts in the
\* channel Ok(Some(r)) if the async status cache file holds a release r newer
\* than current_version, and Ok(None) if not or if the file cannot be read.
C27_InitBranches ==
    [][init =>
         LET c == nchan' IN
         /\ c = nchan + 1
         /\ worker_state' = Some([recvd_payload |-> None, rx |-> c])
         /\ \A i \in Channels \ {c} : worker'[i] = worker[i]
         /\ IF last_check = None
            THEN /\ worker'[c].pc = "none"
                 /\ last_check' = Some(now)
                 /\ IsSome(state_file')
                 /\ Unwrap(state_file').last_check = Some(now)
                 /\ chan'[c].msgs = <<[ok |-> TRUE, payload |-> None]>>
            ELSE IF now - Unwrap(last_check) > update_interval
            THEN /\ worker'[c].pc = "fetch"
                 /\ chan'[c].msgs = <<>>
                 /\ UNCHANGED <<last_check, state_file>>
            ELSE /\ worker'[c].pc = "none"
                 /\ UNCHANGED <<last_check, state_file>>
                 /\ chan'[c].msgs =
                      <<[ok |-> TRUE,
                         payload |->
                           IF /\ cache_async \notin {None, Some(None),
                                                     Some(Some(Garbage))}
                              /\ Unwrap(Unwrap(cache_async)).version
                                   > current_version
                           THEN Unwrap(cache_async)
                           ELSE None]>>]_vars

\* init found no check due and a cache file that cannot be read, and has
\* put Ok(None) in the channel
C27_Witness ==
    /\ nchan = 1
    /\ IsSome(last_check)
    /\ now - Unwrap(last_check) <= update_interval
    /\ cache_async = Some(Some(Garbage))
    /\ worker[1].pc = "none"
    /\ chan[1].msgs = <<[ok |-> TRUE, payload |-> None]>>

C29_OneWorkerAtATime ==
    Cardinality({i \in Channels : worker[i].pc \in {"fetch", "write"}}) <= 1


\* C30: a step of a worker thread leaves current_version, last_check and
\* avail_release alone, in memory and in the state file, and all else that
\* belongs to the caller: the step changes nothing but the async status cache
\* file, the worker's channel and the worker's own position.
C30_WorkerKeepsOffState ==
    [][\A i \in Channels :
         (worker[i].pc \in {"fetch", "write"}
            /\ worker'[i].pc \in {"write", "done"}
            /\ worker'[i].pc /= worker[i].pc)
         => /\ UNCHANGED <<current_version, last_check, avail_release,
                           state_file>>
            /\ UNCHANGED <<update_interval, worker_state, cache_sync, alive,
                           env_version, pc, ret, nchan, workflow>>
            /\ \A j \in Channels \ {i} :
                 chan'[j] = chan[j] /\ worker'[j] = worker[j]]_vars

\* A worker has written the cache file and its message waits in the channel,
\* while last_check and the state file are as the caller left them
C30_Witness ==
    /\ worker[1].pc = "done"
    /\ IsSome(last_good)
    /\ cache_async = Some(last_good)
    /\ chan[1].msgs = << [ok |-> TRUE, payload |-> last_good] >>
    /\ IsSome(last_check)
    /\ now - Unwrap(last_check) > update_interval
    /\ state_file = Some([current_version |-> current_version,
                          avail_release |-> avail_release,
                          last_check |-> last_check])

\* C31: when a readiness query receives Ok(payload) from the channel,
\* avail_release becomes payload, whatever it was (None clears it), the
\* message is cached in recvd_payload, and the state file holds the new state
\* when the query returns.
C31_MergeReplaces ==
    [][(IsQuery(ret') /\ ret'.branch = "recv" /\ IsSome(worker_state)
          /\ chan[Unwrap(worker_state).rx].msgs /= <<>>
          /\ chan[Unwrap(worker_state).rx].msgs[1].ok)
         => LET msg == chan[Unwrap(worker_state).rx].msgs[1] IN
            /\ avail_release' = msg.payload
            /\ Unwrap(worker_state').recvd_payload = Some(msg)
            /\ pc' = "idle" /\ ret'.ok
            /\ IsSome(state_file')
            /\ Unwrap(state_file').avail_release = msg.payload
            /\ Unwrap(state_file').current_version = current_version'
            /\ Unwrap(state_file').last_check = last_check']_vars

\* A query has received Ok(None) after an earlier check had found a release:
\* nothing is stored any more, in memory and on disk
C31_Witness ==
    /\ IsQuery(ret) /\ ret.branch = "recv" /\ ret.ok
    /\ IsSome(last_good)
    /\ avail_release = None
    /\ Unwrap(worker_state).recvd_payload = Some([ok |-> TRUE, payload |-> None])
    /\ state_file = Some([current_version |-> current_version,
                          avail_release |-> None,
                          last_check |-> last_check])

\* C32: when a readiness query merges the payload a worker sent, last_check
\* becomes the time at which the worker obtained the release, if that is
\* later than the last_check before, and stays as it was if not.
C32_LastCheckIsFetchTime ==
    [][(IsQuery(ret') /\ ret'.branch = "recv" /\ ret'.ok
          /\ IsSome(worker_state)
          /\ IsSome(worker[Unwrap(worker_state).rx].fetched_at))
         => LET t == Unwrap(worker[Unwrap(worker_state).rx].fetched_at) IN
            last_check' = IF last_check = None \/ t > Unwrap(last_check)
                          THEN Some(t) ELSE last_check]_vars

\* C33: a query that receives Err from the channel leaves recvd_payload empty
\* and avail_release as it was; and on an Updater whose channel is drained
\* with nothing cached, every update_ready and try_update_ready returns an
\* error at once.
C33_ErrorIsNotCached ==
    [][/\ (/\ IsSome(worker_state) /\ Received = None
           /\ chan[Rx].msgs /= <<>> /\ ~Head(chan[Rx].msgs).ok
           /\ Query)
          => /\ IsSome(worker_state') /\ Unwrap(worker_state').rx = Rx
             /\ Unwrap(worker_state').recvd_payload = None
             /\ avail_release' = avail_release
             /\ ~ret'.ok /\ pc' = "idle"
       /\ (/\ IsSome(worker_state) /\ Received = None
           /\ chan[Rx].msgs = <<>> /\ ~chan[Rx].tx
           /\ Query)
          => /\ IsQuery(ret') /\ ~ret'.ok /\ pc' = "idle"
             /\ UNCHANGED <<worker_state, avail_release>>]_vars

\* The worker's Err has been received and a later query has returned an
\* error from the drained channel
C33_Witness ==
    /\ IsSome(worker_state) /\ Received = None
    /\ worker[Rx].pc = "done"
    /\ chan[Rx].msgs = <<>> /\ ~chan[Rx].tx
    /\ IsQuery(ret) /\ ret.branch = "disconnected" /\ ~ret.ok
    /\ pc = "idle"

C35_PathsAgree ==
    (alive /\ pc = "idle" /\ worker_state = None /\ IsSome(last_check)
       /\ now - Unwrap(last_check) <= update_interval)
    => ((/\ cache_sync \notin {None, Some(None)}
         /\ current_version < Unwrap(Unwrap(cache_sync)).version)
        = (/\ cache_async \notin {None, Some(None), Some(Some(Garbage))}
           /\ current_version < Unwrap(Unwrap(cache_async)).version))

\* C36: init leaves avail_release and current_version as they are, in every
\* branch, and with them the URL download_latest would use and the outcome
\* of the comparison of versions; it changes last_check in the first-run
\* branch only.
C36_InitFrame ==
    [][init
         => /\ UNCHANGED <<avail_release, current_version>>
            /\ download_url(avail_release') = download_url(avail_release)
            /\ is_newer(current_version', avail_release')
                 = is_newer(current_version, avail_release)
            /\ IF last_check = None
               THEN last_check' = Some(now)
               ELSE last_check' = last_check]_vars

\* init has spawned a worker on an Updater that holds a release; the release
\* and last_check are those of the state file
C36_Witness ==
    /\ nchan = 1 /\ worker[1].pc = "fetch"
    /\ IsSome(avail_release) /\ IsSome(last_check)
    /\ state_file = Some([current_version |-> current_version,
                          avail_release |-> avail_release,
                          last_check |-> last_check])

\* C37: in every reachable state a stored release comes with a last_check,
\* in the Updater's memory and in the state file.
C37_ReleaseImpliesLastCheck ==
    /\ IsSome(avail_release) => IsSome(last_check)
    /\ (state_file \notin {None, Some(Garbage)}
          /\ IsSome(Unwrap(state_file).avail_release))
       => IsSome(Unwrap(state_file).last_check)

\* A release is stored in memory and in the state file
C37_Witness ==
    /\ alive /\ IsSome(avail_release)
    /\ state_file \notin {None, Some(Garbage)}
    /\ Unwrap(state_file).avail_release = avail_release
    /\ IsSome(Unwrap(state_file).last_check)

\* C38: when saving the state fails, the call returns the error and the
\* state file is still there with the content it had before the call.
C38_FailedSaveKeepsFile ==
    [][(ret'.branch = "save" /\ ret' /= ret)
         => /\ ~ret'.ok
            /\ IsSome(state_file')
            /\ state_file' = state_file]_vars

\* C39: a release whose tag is not a version makes the release check fail
\* with an error the readiness query returns. The calling thread never
\* panics, and a query that receives from a worker whose check met such a
\* tag returns an error, never Ok.
C39_BadTagIsAnError ==
    [][/\ ret'.branch /= "panic"
       /\ (/\ alive /\ IsSome(worker_state)
           /\ worker[Unwrap(worker_state).rx].pc = "panicked"
           /\ ~has_payload(Unwrap(worker_state))
           /\ ret' /= ret
           /\ ret'.op \in {"update_ready", "try_update_ready"})
          => ~ret'.ok]_vars

\* C40: a GithubReleaser keeps the release it fetched. downloadable_url on a
\* releaser that holds none is an error. On a releaser that holds one, no
\* call asks the server or changes what is held, and when fetch_latest_release
\* has succeeded on it, fetch_latest_release, latest_version and
\* downloadable_url return the version and the URL of the held release. A
\* request that fails leaves the releaser without release, and the next
\* latest_version or fetch_latest_release asks the server again.
C40_ReleaserCaches ==
    [][/\ (downloadable_url /\ latest_release = None) => ~ret'.ok
       /\ (latest_release /= None /\ ret' /= ret)
          => /\ net_calls' = net_calls
             /\ latest_release' = latest_release
       /\ (/\ latest_release /= None
           /\ IsSome(tag_version(Unwrap(latest_release).tag_name))
           /\ IsSome(downloadable_url_of(latest_release))
           /\ ret' /= ret)
          => /\ ret'.ok
             /\ ret'.op = "latest_version"
                  => ret'.fetched = tag_version(Unwrap(latest_release).tag_name)
             /\ ret'.op = "downloadable_url"
                  => ret'.fetched = downloadable_url_of(latest_release)
             /\ ret'.op = "fetch_latest_release"
                  => ret'.fetched =
                       Some([version |->
                               Unwrap(tag_version(
                                 Unwrap(latest_release).tag_name)),
                             url |->
                               Unwrap(downloadable_url_of(latest_release))])
       /\ (latest_release = None
             /\ ret'.op \in {"latest_version", "fetch_latest_release"})
          => /\ net_calls' /= net_calls
             /\ latest_release' = None => ~ret'.ok]_vars

\* fetch_latest_release has returned the version and the URL of the release
\* the releaser holds, without a request
C40_Witness ==
    /\ ret.op = "fetch_latest_release" /\ ret.ok
    /\ net_calls = 1
    /\ IsSome(latest_release)
    /\ Unwrap(ret.fetched).version = 1
    /\ Len(Unwrap(latest_release).assets) = 1

====
